---- MODULE Spec2Model ----
(***************************************************************************)
(* Model of settlement_app.py: the previous-month filter, the shipping,    *)
(* return and receiving classifiers, and the Streamlit script that runs    *)
(* them and offers the workbook for download.                              *)
(*                                                                         *)
(* Text is a sequence of one-character strings, so that split, strip and   *)
(* substring search are computed and not assumed.  A table (DataFrame) is  *)
(* a record [columns, rows]; a row is [index, cells] where index is the    *)
(* pandas index label and cells maps a column name to the cell.            *)
(*                                                                         *)
(* The module's strings are ASCII.  The Korean literals of the source are  *)
(* romanised:                                                              *)
(*   "banpum"  반품      "bulryang" 불량     "pason" 파손    "gita" 기타   *)
(*   "ilja" 일자   "jumunbeonho" 주문번호   "gubun(new)" 구분(new)         *)
(*   "gubun" 구분  "sangpumcode" 상품코드   "pummokmyeong" 품목명          *)
(*   "danwi(EA)" 단위(EA)   "danwi" 단위    "suryang" 수량                 *)
(*   "jaryochulcheo" 자료출처   "chulgotype" 출고타입   "sangtae" 상태     *)
(*   "sangpumbigo" 상품비고   "brand" 브랜드   "[brand]" [브랜드]          *)
(*   "[maechulcheo]" [매출처]   "[taekbaesa]" [택배사]                     *)
(*   "samil chulgo data" 삼일 출고데이터, "samil banpum data" 삼일         *)
(*   반품데이터, "samil ipgo data" 삼일 입고데이터                         *)
(*   sheets: "jeongsan-yoyak" 정산요약, "maechulcheo isang" 매출처 이상,   *)
(*   "chulgotype isang" 출고타입 이상, "ipgo teugisahang" 입고 특이사항,   *)
(*   "musang jeongsang ipgo" 무상 정상 입고, "geomjeung" 검증              *)
(***************************************************************************)
EXTENDS Integers, Sequences, FiniteSets, TLC

VARIABLES
    type_conditions, \* CONFIG['rules']['shipping']['type_conditions'] as loaded
    today,           \* pd.Timestamp.now(): [year, month]
    df,              \* the table object the caller hands to the function
    df_before,       \* history: the caller's table when the call started
    result,          \* what the call returned
    pc,              \* "call" before the call, "returned" / "raised" after
    uploaded_files,  \* st.file_uploader's value
    session_state,   \* st.session_state: [processing_done, excel_output]
    download,        \* what the page's download button offers, or NoDownload
    last_run         \* history: the most recently started run

vars == <<type_conditions, today, df, df_before, result, pc,
          uploaded_files, session_state, download, last_run>>

(***************************************************************************)
(* Bounds of the model.                                                    *)
(***************************************************************************)
MaxRows == 3
MaxShipRows == 4
MaxReturnRows == 3
MaxReceivingRows == 3
MaxFiles == 2

(***************************************************************************)
(* Text                                                                    *)
(***************************************************************************)
NoText == <<"n", "a", "n">>

\* s[a..b], empty when b < a
Slice(s, a, b) == [i \in 1..(b - a + 1) |-> s[a + i - 1]]

\* does sub occur in s at position i
OccursAt(sub, s, i) ==
    /\ i >= 1
    /\ i + Len(sub) - 1 <= Len(s)
    /\ \A k \in 1..Len(sub) : s[i + k - 1] = sub[k]

\* python's  sub in s
Contains(sub, s) == \E i \in 1..(Len(s) + 1) : OccursAt(sub, s, i)

\* python's s.find(sub) + 1, or 0 when sub does not occur
Find(sub, s) ==
    IF Contains(sub, s)
    THEN CHOOSE i \in 1..(Len(s) + 1) :
            /\ OccursAt(sub, s, i)
            /\ \A j \in 1..(i - 1) : ~OccursAt(sub, s, j)
    ELSE 0

\* python's s.split(sep): the list of segments, left to right
RECURSIVE Split(_, _)
Split(s, sep) ==
    LET p == Find(sep, s)
    IN  IF p = 0 THEN <<s>>
        ELSE <<Slice(s, 1, p - 1)>> \o Split(Slice(s, p + Len(sep), Len(s)), sep)

\* python's s.strip() for blanks
RECURSIVE Strip(_)
Strip(s) ==
    IF s = <<>> THEN s
    ELSE IF Head(s) = " " THEN Strip(Tail(s))
    ELSE IF s[Len(s)] = " " THEN Strip(Slice(s, 1, Len(s) - 1))
    ELSE s

(***************************************************************************)
(* Tables                                                                  *)
(***************************************************************************)
EmptyFrame == [columns |-> <<>>, rows |-> <<>>]

Range(s) == {s[i] : i \in 1..Len(s)}

HasColumn(d, c) == c \in Range(d.columns)

\* DataFrame.empty: either axis has length 0
IsEmpty(d) == Len(d.columns) = 0 \/ Len(d.rows) = 0

\* rows of d for which keep[i] holds, index labels kept
Mask(d, keep) ==
    LET RECURSIVE Pick(_)
        Pick(i) == IF i > Len(d.rows) THEN <<>>
                   ELSE (IF keep[i] THEN <<d.rows[i]>> ELSE <<>>) \o Pick(i + 1)
    IN  [d EXCEPT !.rows = Pick(1)]

\* d[c] = values (one value per row), the column added when it is missing
SetColumn(d, c, values) ==
    [columns |-> IF HasColumn(d, c) THEN d.columns ELSE Append(d.columns, c),
     rows    |-> [i \in 1..Len(d.rows) |->
                    [d.rows[i] EXCEPT !.cells =
                        [k \in (DOMAIN d.rows[i].cells) \cup {c} |->
                            IF k = c THEN values[i] ELSE d.rows[i].cells[k]]]]]

\* the same value in every row of d
Every(d, v) == [i \in 1..Len(d.rows) |-> v]

Indexes(d) == {d.rows[i].index : i \in 1..Len(d.rows)}

(***************************************************************************)
(* Dates                                                                   *)
(***************************************************************************)
NaT == [kind |-> "nat"]
Timestamp(y, m) == [kind |-> "ts", year |-> y, month |-> m]
DateText(t) == [kind |-> "str", text |-> t]
NaN == [kind |-> "nan"]

YearText == [t \in {"2023", "2024"} |-> IF t = "2023" THEN 2023 ELSE 2024]
MonthText == [t \in {"01", "02", "03", "12"} |->
                CASE t = "01" -> 1 [] t = "02" -> 2 [] t = "03" -> 3 [] t = "12" -> 12]

\* pd.to_datetime(cell, errors='coerce')
to_datetime(cell) ==
    CASE cell.kind = "ts"  -> cell
      [] cell.kind = "str" ->
            IF /\ Len(cell.text) = 3
               /\ cell.text[1] \in DOMAIN YearText
               /\ cell.text[2] = "-"
               /\ cell.text[3] \in DOMAIN MonthText
            THEN Timestamp(YearText[cell.text[1]], MonthText[cell.text[3]])
            ELSE NaT
      [] OTHER -> NaT

\* mutant: the last row is kept
filter_local_keep_last(d) == d

\* lines 28-29: the table the function works on
filter_local(d) ==
    IF Len(d.rows) > 1
    THEN [d EXCEPT !.rows = SubSeq(d.rows, 1, Len(d.rows) - 1)]
    ELSE d

\* lines 31-32 applied to a table: parse the date column, drop the NaT rows
filter_parse_dropna(d, date_col) ==
    LET p == SetColumn(d, date_col,
                       [i \in 1..Len(d.rows) |-> to_datetime(d.rows[i].cells[date_col])])
    IN  Mask(p, [i \in 1..Len(p.rows) |-> p.rows[i].cells[date_col] # NaT])

\* mutant: the year is not rolled back in January
prev_month_year_no_rollback(now) == now.year

prev_month_year(now) == IF now.month > 1 THEN now.year ELSE now.year - 1
prev_month(now) == IF now.month > 1 THEN now.month - 1 ELSE 12

filter_by_previous_month(d, date_col, now) ==
    IF ~HasColumn(d, date_col) \/ IsEmpty(d) THEN EmptyFrame
    ELSE LET w == filter_parse_dropna(filter_local(d), date_col)
         IN  IF IsEmpty(w) THEN EmptyFrame
             ELSE Mask(w, [i \in 1..Len(w.rows) |->
                            /\ w.rows[i].cells[date_col].year = prev_month_year(now)
                            /\ w.rows[i].cells[date_col].month = prev_month(now)])

\* the caller's table object once filter_by_previous_month has returned:
\* with one row the function assigns to and drops from the caller's object
filter_caller_after(d, date_col) ==
    IF ~HasColumn(d, date_col) \/ IsEmpty(d) THEN d
    ELSE IF Len(d.rows) > 1 THEN d
    ELSE filter_parse_dropna(d, date_col)

(***************************************************************************)
(* Configuration.  config.json is read once (lines 10-20); its keys are    *)
(* those the code reads.  Keys whose name starts with "_" are comments of  *)
(* the file; a filter key that ends with "_exclude" names its companion    *)
(* column by col.replace('_exclude', '').  A dict is a function; a list is *)
(* a sequence.                                                             *)
(***************************************************************************)
\* str.startswith('_') for the key names the configuration uses
startswith_underscore(k) == k \in {"_comment", "_memo"}

\* str.endswith('_exclude') for the key names the configuration uses
endswith_exclude(k) == k \in {"[sangtae]_exclude"}

\* col.replace('_exclude', '')
replace_exclude(k) == IF k = "[sangtae]_exclude" THEN "[sangtae]" ELSE k

\* a filter entry of the configuration: key -> val; isList is isinstance(val, list)
FilterEntry(key, isList, val) == [key |-> key, isList |-> isList, val |-> val]

ShippingRules(tc) ==
    [date_col |-> "[chulgoil]",
     filters |-> << FilterEntry("_memo", FALSE, "memo"),
                    FilterEntry("[sangtae]_exclude", FALSE, "cancel"),
                    FilterEntry("[gubun]", TRUE, {"sample"}),
                    FilterEntry("[changgo]", FALSE, "samil") >>,
     type_conditions |-> tc,
     mall_list |-> { <<"M", "1">>, <<"M", "2">> },
     category_map |-> [k \in { <<"M", "1">>, <<"default">> } |->
                          IF k = <<"M", "1">> THEN "online" ELSE "offline"],
     seeding_map |-> [brand |-> <<"B">>, mall |-> <<"M", "2">>, category |-> "seeding"],
     final_columns |-> [k \in {"_comment", "ilja", "jumunbeonho", "gubun",
                               "suryang", "chulgotype"} |->
                          CASE k = "_comment"    -> "memo"
                            [] k = "ilja"        -> "[chulgoil]"
                            [] k = "jumunbeonho" -> "[jumunbeonho]"
                            [] k = "gubun"       -> "[gubun]"
                            [] k = "suryang"     -> "[suryang]"
                            [] k = "chulgotype"  -> "[taekbaesa]"]]

ReturnRules ==
    [date_col |-> "[banpumil]",
     brand_col |-> "[brand]",
     qty_col |-> "[suryang]",
     status_col |-> "[sangtae]",
     bad_pason_map |-> [k \in {"bulryang-banpum", "pason-banpum"} |->
                          IF k = "bulryang-banpum" THEN "bulryang" ELSE "pason"],
     final_columns |-> [k \in {"_comment", "ilja", "jumunbeonho", "gubun", "sangpumcode",
                               "pummokmyeong", "suryang"} |->
                          CASE k = "_comment"     -> "memo"
                            [] k = "ilja"         -> "[banpumil]"
                            [] k = "jumunbeonho"  -> "[jumunbeonho]"
                            [] k = "gubun"        -> "[gubun]"
                            [] k = "sangpumcode"  -> "[sangpumcode]"
                            [] k = "pummokmyeong" -> "[pummokmyeong]"
                            [] k = "suryang"      -> "[suryang]"]]

ReceivingRules ==
    [date_col |-> "[ipgoil]",
     type_col |-> "[ipgotype]",
     free_types |-> {"musang"},
     qty_col |-> "suryang",
     peculiar_filters |-> << FilterEntry("_memo", FALSE, "memo"),
                             FilterEntry("[ipgotype]", TRUE, {"idong"}),
                             FilterEntry("[sangtae]", FALSE, "cancel") >>,
     final_columns_peculiar |-> [k \in {"_comment", "ilja", "gubun", "suryang", "brand"} |->
                          CASE k = "_comment" -> "memo"
                            [] k = "ilja"     -> "[ipgoil]"
                            [] k = "gubun"    -> "[gubun]"
                            [] k = "suryang"  -> "suryang"
                            [] k = "brand"    -> "[brand]"],
     final_columns_free |-> [k \in {"ilja", "gubun", "suryang", "brand"} |->
                          CASE k = "ilja"     -> "[ipgoil]"
                            [] k = "gubun"    -> "[gubun]"
                            [] k = "suryang"  -> "suryang"
                            [] k = "brand"    -> "[brand]"]]

load_config(tc) ==
    [general |-> [excluded_brands |-> { <<"X">> }],
     file_identifiers |-> [shipping |-> "[taekbaesa]",
                           return |-> "[banpumil]",
                           receiving |-> "[ipgotype]"],
     rules |-> [shipping |-> ShippingRules(tc),
                return |-> ReturnRules,
                receiving |-> ReceivingRules]]

\* the keyword configurations: some keywords, an empty list, the key missing
TypeConditions ==
    { [normal_type |-> <<"taekbae", "quick">>, normal_mall_keywords |-> << <<"M">>, <<"S">> >>],
      [normal_type |-> <<"taekbae", "quick">>, normal_mall_keywords |-> <<>>],
      [normal_type |-> <<"taekbae", "quick">>] }

\* the keyword configuration of the usual file
UsualTypeConditions ==
    [normal_type |-> <<"taekbae", "quick">>, normal_mall_keywords |-> << <<"M">>, <<"S">> >>]

\* line 20: the configuration every function reads
CONFIG == load_config(type_conditions)

Todays == {[year |-> 2024, month |-> 1], [year |-> 2024, month |-> 3]}

(***************************************************************************)
(* Steps the three classifiers share                                       *)
(***************************************************************************)
\* .astype(str).str.split(':').str[0].str.strip()
normalize_brand(text) == Strip(Split(text, <<":">>)[1])

\* lines 52-53, 125-126, 170-171: normalise the brand, drop the excluded brands
exclude_brands(d, brand_col) ==
    LET n == SetColumn(d, brand_col,
                       [i \in 1..Len(d.rows) |-> normalize_brand(d.rows[i].cells[brand_col])])
    IN  Mask(n, [i \in 1..Len(n.rows) |->
                    n.rows[i].cells[brand_col] \notin CONFIG.general.excluded_brands])

\* DataFrame.rename(columns=rename_map): rename_map is a function old -> new
Rename(d, rename_map) ==
    LET New(c) == IF c \in DOMAIN rename_map THEN rename_map[c] ELSE c
    IN  [columns |-> [i \in 1..Len(d.columns) |-> New(d.columns[i])],
         rows |-> [i \in 1..Len(d.rows) |->
                    [d.rows[i] EXCEPT !.cells =
                        [k \in {New(c) : c \in DOMAIN d.rows[i].cells} |->
                            d.rows[i].cells[CHOOSE c \in DOMAIN d.rows[i].cells : New(c) = k]]]]]

\* d[cols]
Select(d, cols) ==
    [columns |-> cols,
     rows |-> [i \in 1..Len(d.rows) |->
                 [d.rows[i] EXCEPT !.cells = [k \in Range(cols) |-> d.rows[i].cells[k]]]]]

NA == [kind |-> "na"]

\* for col in cols: if col not in d.columns: d[col] = pd.NA
RECURSIVE FillMissing(_, _)
FillMissing(d, cols) ==
    IF cols = <<>> THEN d
    ELSE FillMissing(IF HasColumn(d, Head(cols)) THEN d
                     ELSE SetColumn(d, Head(cols), Every(d, NA)),
                     Tail(cols))

\* {v: k for k, v in cols_map.items() if not k.startswith('_')} with skip = {}, and
\* without the source columns of skip (line 196)
InvertColumns(cols_map, skip) ==
    LET keys == {k \in DOMAIN cols_map :
                    ~startswith_underscore(k) /\ cols_map[k] \notin skip}
    IN  [v \in {cols_map[k] : k \in keys} |-> CHOOSE k \in keys : cols_map[k] = v]

\* dict.update
Update(f, g) == [k \in (DOMAIN f) \cup (DOMAIN g) |-> IF k \in DOMAIN g THEN g[k] ELSE f[k]]

MetaRename ==
    [k \in {"gubun(new)", "jaryochulcheo", "danwi"} |->
        IF k = "danwi" THEN "danwi(EA)" ELSE k]

col_order == <<"ilja", "jumunbeonho", "gubun(new)", "gubun", "sangpumcode",
               "pummokmyeong", "danwi(EA)", "suryang", "jaryochulcheo">>

\* [c for c in order if c in d.columns]
Present(order, d) == SelectSeq(order, LAMBDA c : HasColumn(d, c))

(***************************************************************************)
(* process_shipping_data                                                   *)
(***************************************************************************)
\* lines 55-62
RECURSIVE shipping_filters(_, _)
shipping_filters(d, filters) ==
    IF filters = <<>> THEN d
    ELSE LET f == Head(filters)
             col == f.key
             kept ==
                IF startswith_underscore(col) THEN d
                ELSE IF endswith_exclude(col)
                THEN Mask(d, [i \in 1..Len(d.rows) |->
                                d.rows[i].cells[replace_exclude(col)] # f.val])
                ELSE IF f.isList
                THEN Mask(d, [i \in 1..Len(d.rows) |-> d.rows[i].cells[col] \notin f.val])
                ELSE Mask(d, [i \in 1..Len(d.rows) |-> d.rows[i].cells[col] = f.val])
         IN  shipping_filters(kept, Tail(filters))

\* the columns lines 55-62 read
FilterColumns(filters) ==
    {replace_exclude(filters[i].key) :
        i \in {j \in 1..Len(filters) : ~startswith_underscore(filters[j].key)}}

\* line 64: x.split(': ', 1)[1] if ': ' in x else x
mall_name(x) ==
    IF Contains(<<":", " ">>, x)
    THEN Slice(x, Find(<<":", " ">>, x) + 2, Len(x))
    ELSE x

\* '|'.join(keywords)
RECURSIVE join_bar(_)
join_bar(keywords) ==
    IF keywords = <<>> THEN <<>>
    ELSE IF Len(keywords) = 1 THEN keywords[1]
    ELSE keywords[1] \o <<"|">> \o join_bar(Tail(keywords))

\* Series.str.contains(pattern, na=False) for a pattern of plain alternatives:
\* the value matches when one alternative of the pattern occurs in it
str_contains(x, pattern) == \E alt \in Range(Split(pattern, <<"|">>)) : Contains(alt, x)

\* lines 46-53: the table after the month filter and the brand exclusion
shipping_after_brand(d, now) ==
    exclude_brands(filter_by_previous_month(d, CONFIG.rules.shipping.date_col, now),
                   "[brand]")

\* lines 46-64: the surviving rows, the sales channel normalised
shipping_survivors(d, now) ==
    LET config == CONFIG.rules.shipping
        f == shipping_filters(shipping_after_brand(d, now), config.filters)
    IN  SetColumn(f, "[maechulcheo]",
                  [i \in 1..Len(f.rows) |-> mall_name(f.rows[i].cells["[maechulcheo]"])])

\* line 67
cond_type_normal(r) ==
    r.cells["[taekbaesa]"] \in Range(CONFIG.rules.shipping.type_conditions.normal_type)

\* line 68
cond_mall_keywords(r) ==
    str_contains(r.cells["[maechulcheo]"],
                 join_bar(CONFIG.rules.shipping.type_conditions.normal_mall_keywords))

\* line 69
is_normal(r) ==
    \/ /\ r.cells["[taekbaesa]"] = CONFIG.rules.shipping.type_conditions.normal_type[1]
       /\ cond_mall_keywords(r)
    \/ cond_type_normal(r)

\* lines 77-84
assign_category(d, config) ==
    IF IsEmpty(d) THEN d
    ELSE LET category_map == config.category_map
             default == IF <<"default">> \in DOMAIN category_map
                        THEN category_map[<<"default">>] ELSE "gita"
             Seeded(r) ==
                /\ "seeding_map" \in DOMAIN config
                /\ r.cells["[brand]"] = config.seeding_map.brand
                /\ r.cells["[maechulcheo]"] = config.seeding_map.mall
             Category(r) ==
                IF Seeded(r) THEN config.seeding_map.category
                ELSE IF r.cells["[maechulcheo]"] \in DOMAIN category_map
                THEN category_map[r.cells["[maechulcheo]"]]
                ELSE default
         IN  SetColumn(d, "gubun(new)", [i \in 1..Len(d.rows) |-> Category(d.rows[i])])

\* lines 89-107
shipping_finalize(d, cols_map, is_abnormal) ==
    IF IsEmpty(d) THEN EmptyFrame
    ELSE LET stamped == SetColumn(SetColumn(d, "jaryochulcheo",
                                             Every(d, "samil chulgo data")),
                                   "danwi", Every(d, 1))
             final_df == Rename(stamped, Update(InvertColumns(cols_map, {}), MetaRename))
             order == IF is_abnormal THEN <<"chulgotype">> \o col_order ELSE col_order
             filled == FillMissing(final_df, order)
         IN  Select(filled, Present(order, filled))

\* the lookups of lines 46-69 that raise KeyError
shipping_raises(d, now) ==
    LET config == CONFIG.rules.shipping
        m == filter_by_previous_month(d, config.date_col, now)
    IN  /\ ~IsEmpty(d)
        /\ ~IsEmpty(m)
        /\ \/ ~HasColumn(m, "[brand]")
           \/ ~(FilterColumns(config.filters) \subseteq Range(m.columns))
           \/ ~HasColumn(m, "[maechulcheo]")
           \/ ~HasColumn(m, "[taekbaesa]")
           \/ "normal_mall_keywords" \notin DOMAIN config.type_conditions

NoTables == [raised |-> FALSE, main |-> EmptyFrame, type_abnormal |-> EmptyFrame,
             store_abnormal |-> EmptyFrame]

\* mutant: the mall split is taken from every surviving row, not from the
\* normal-type rows only
shipping_split_mall_of_all(s) ==
    LET config == CONFIG.rules.shipping
        normal == [i \in 1..Len(s.rows) |-> is_normal(s.rows[i])]
        listed == [i \in 1..Len(s.rows) |->
                      s.rows[i].cells["[maechulcheo]"] \in config.mall_list]
    IN  [main |-> Mask(s, [i \in 1..Len(s.rows) |-> normal[i] /\ listed[i]]),
         type_abnormal |-> Mask(s, [i \in 1..Len(s.rows) |-> ~normal[i]]),
         store_abnormal |-> Mask(s, [i \in 1..Len(s.rows) |-> ~listed[i]])]

\* lines 66-75: df_main, df_shipping_type_abnormal, df_store_abnormal
shipping_split(s) ==
    LET config == CONFIG.rules.shipping
        normal == [i \in 1..Len(s.rows) |-> is_normal(s.rows[i])]
        df_normal_candidate == Mask(s, normal)
        listed == [i \in 1..Len(df_normal_candidate.rows) |->
                      df_normal_candidate.rows[i].cells["[maechulcheo]"]
                          \in config.mall_list]
    IN  [main |-> Mask(df_normal_candidate, listed),
         type_abnormal |-> Mask(s, [i \in 1..Len(s.rows) |-> ~normal[i]]),
         store_abnormal |->
            Mask(df_normal_candidate,
                 [i \in 1..Len(df_normal_candidate.rows) |-> ~listed[i]])]

\* lines 44-111
process_shipping_data(d, now) ==
    LET config == CONFIG.rules.shipping
    IN  IF IsEmpty(d) THEN NoTables
        ELSE IF IsEmpty(filter_by_previous_month(d, config.date_col, now)) THEN NoTables
        ELSE IF shipping_raises(d, now) THEN [raised |-> TRUE]
        ELSE LET parts == shipping_split(shipping_survivors(d, now))
             IN  [raised |-> FALSE,
                  main |-> shipping_finalize(assign_category(parts.main, config),
                                             config.final_columns, FALSE),
                  type_abnormal |-> shipping_finalize(parts.type_abnormal,
                                                      config.final_columns, TRUE),
                  store_abnormal |->
                      shipping_finalize(assign_category(parts.store_abnormal, config),
                                        config.final_columns, FALSE)]

(***************************************************************************)
(* process_return_data                                                     *)
(***************************************************************************)
Number(n) == [kind |-> "num", n |-> n]
NonNumeric == [kind |-> "text"]

\* pd.to_numeric(cell, errors='coerce') followed by fillna(0)
to_numeric_fillna0(cell) == IF cell.kind = "num" THEN cell.n ELSE 0

Abs(n) == IF n < 0 THEN 0 - n ELSE n

\* lines 114-131: the surviving rows, the quantity made numeric
return_survivors(d, now) ==
    LET config == CONFIG.rules.return
        b == exclude_brands(filter_by_previous_month(d, config.date_col, now),
                            config.brand_col)
    IN  SetColumn(b, config.qty_col,
                  [i \in 1..Len(b.rows) |->
                      Number(to_numeric_fillna0(b.rows[i].cells[config.qty_col]))])

\* pd.concat([a, b], ignore_index=True): the index is renumbered; origin is
\* history, the index label the row had before
Concat(a, b) ==
    LET rows == a.rows \o b.rows
        New(c) == ~HasColumn(a, c)
        columns == a.columns \o SelectSeq(b.columns, New)
    IN  [columns |-> columns,
         rows |-> [i \in 1..Len(rows) |->
                     [index |-> i - 1,
                      origin |-> rows[i].index,
                      cells |-> [c \in Range(columns) |->
                                    IF c \in DOMAIN rows[i].cells
                                    THEN rows[i].cells[c] ELSE NaN]]]]

\* mutant: the sign rule as the comment of lines 148-149 words it
\* (every row positive, "bulryang" alone negated)
return_sign_comment(label, q) == IF label = "bulryang" THEN 0 - Abs(q) ELSE Abs(q)

\* lines 150-152: the signed quantity of a row labelled label
return_sign(label, q) ==
    LET a == Abs(q)
        b == IF label = "banpum" THEN a * (0 - 1) ELSE a
    IN  IF label = "bulryang" THEN b * 1 ELSE b

\* the lookups of lines 125-138 that raise KeyError
return_raises(d, now) ==
    LET config == CONFIG.rules.return
        m == filter_by_previous_month(d, config.date_col, now)
    IN  /\ ~IsEmpty(d)
        /\ ~IsEmpty(m)
        /\ ~({config.brand_col, config.qty_col, config.status_col} \subseteq Range(m.columns))

\* line 160
return_columns(final_df) == Select(final_df, Present(col_order, final_df))

\* lines 134-135: every surviving row, labelled "banpum"
return_rows(s) == SetColumn(s, "gubun(new)", Every(s, "banpum"))

\* lines 138-140: the rows whose status is mapped, relabelled
bad_pason_rows(s) ==
    LET config == CONFIG.rules.return
        mapped == Mask(s, [i \in 1..Len(s.rows) |->
                            s.rows[i].cells[config.status_col]
                                \in DOMAIN config.bad_pason_map])
    IN  IF IsEmpty(mapped) THEN mapped
        ELSE SetColumn(mapped, "gubun(new)",
                [i \in 1..Len(mapped.rows) |->
                    config.bad_pason_map[mapped.rows[i].cells[config.status_col]]])

\* lines 144-145
return_stamp(joined) ==
    SetColumn(SetColumn(joined, "jaryochulcheo", Every(joined, "samil banpum data")),
              "danwi", Every(joined, 1))

\* lines 150-152
return_signed(stamped) ==
    LET qty_col == CONFIG.rules.return.qty_col
    IN  SetColumn(stamped, qty_col,
            [i \in 1..Len(stamped.rows) |->
                Number(return_sign(stamped.rows[i].cells["gubun(new)"],
                                   to_numeric_fillna0(stamped.rows[i].cells[qty_col])))])

\* lines 133-160, for the surviving rows s
return_table(s) ==
    return_columns(
        Rename(return_signed(return_stamp(Concat(return_rows(s), bad_pason_rows(s)))),
               Update(InvertColumns(CONFIG.rules.return.final_columns, {}), MetaRename)))

\* lines 113-160
process_return_data(d, now) ==
    LET config == CONFIG.rules.return
    IN  IF IsEmpty(d) THEN [raised |-> FALSE, table |-> EmptyFrame]
        ELSE IF IsEmpty(filter_by_previous_month(d, config.date_col, now))
        THEN [raised |-> FALSE, table |-> EmptyFrame]
        ELSE IF return_raises(d, now) THEN [raised |-> TRUE]
        ELSE [raised |-> FALSE, table |-> return_table(return_survivors(d, now))]

(***************************************************************************)
(* process_receiving_data                                                  *)
(***************************************************************************)
\* a missing value in a column of text
TextNaN == <<"NaN">>

\* lines 176-181
RECURSIVE peculiar_filters(_, _)
peculiar_filters(d, filters) ==
    IF filters = <<>> THEN d
    ELSE LET f == Head(filters)
             col == f.key
             kept ==
                IF startswith_underscore(col) THEN d
                ELSE IF f.isList
                THEN Mask(d, [i \in 1..Len(d.rows) |-> d.rows[i].cells[col] \notin f.val])
                ELSE Mask(d, [i \in 1..Len(d.rows) |-> d.rows[i].cells[col] # f.val])
         IN  peculiar_filters(kept, Tail(filters))

\* Series.str.split(' : ').str[1]
second_segment(text) ==
    LET parts == Split(text, <<" ", ":", " ">>)
    IN  IF Len(parts) >= 2 THEN parts[2] ELSE TextNaN

\* mutant: the peculiar quantity is negated without taking the absolute value
receiving_quantity_negated(is_free, q) == IF is_free THEN q ELSE 0 - q

\* lines 203 and 207
receiving_quantity(is_free, q) == IF is_free THEN q ELSE 0 - Abs(q)

final_cols == <<"ilja", "jumunbeonho", "gubun(new)", "gubun", "sangpumcode",
                "pummokmyeong", "danwi(EA)", "suryang", "jaryochulcheo", "sangtae",
                "sangpumbigo", "brand">>

\* lines 183-223, for a table that is not empty
receiving_finalize(d, cols_map, is_free) ==
    IF IsEmpty(d) THEN EmptyFrame
    ELSE LET qty_src_col == CONFIG.rules.receiving.qty_col
             stamped == SetColumn(SetColumn(d, "jaryochulcheo",
                                            Every(d, "samil ipgo data")),
                                  "danwi", Every(d, 1))
             orig_qty == [i \in 1..Len(stamped.rows) |->
                            to_numeric_fillna0(stamped.rows[i].cells[qty_src_col])]
             renamed == Rename(stamped, InvertColumns(cols_map, {qty_src_col, "danwi"}))
             with_qty == SetColumn(renamed, "suryang",
                            [i \in 1..Len(renamed.rows) |->
                                Number(receiving_quantity(is_free, orig_qty[i]))])
             with_category ==
                SetColumn(with_qty, "gubun(new)",
                    [i \in 1..Len(with_qty.rows) |->
                        IF is_free THEN second_segment(with_qty.rows[i].cells["gubun"])
                        ELSE "banpum"])
             with_unit == SetColumn(with_category, "danwi(EA)", Every(with_category, 1))
         IN  Select(FillMissing(with_unit, final_cols), final_cols)

\* columns the filters of lines 176-181 read
PeculiarFilterColumns(filters) ==
    {filters[i].key : i \in {j \in 1..Len(filters) : ~startswith_underscore(filters[j].key)}}

\* lines 164-174: the table after the month filter and the brand exclusion
receiving_survivors(d, now) ==
    exclude_brands(filter_by_previous_month(d, CONFIG.rules.receiving.date_col, now),
                   "[brand]")

\* the free bucket (line 173)
receiving_free(d, now) ==
    LET config == CONFIG.rules.receiving
        s == receiving_survivors(d, now)
    IN  Mask(s, [i \in 1..Len(s.rows) |-> s.rows[i].cells[config.type_col] \in config.free_types])

\* the peculiar bucket (lines 174-181)
receiving_peculiar(d, now) ==
    LET config == CONFIG.rules.receiving
        s == receiving_survivors(d, now)
    IN  peculiar_filters(
            Mask(s, [i \in 1..Len(s.rows) |->
                        s.rows[i].cells[config.type_col] \notin config.free_types]),
            config.peculiar_filters)

\* the lookups of lines 170-204 that raise KeyError
receiving_raises(d, now) ==
    LET config == CONFIG.rules.receiving
        m == filter_by_previous_month(d, config.date_col, now)
        columns == Range(m.columns)
    IN  /\ ~IsEmpty(d)
        /\ ~IsEmpty(m)
        /\ \/ ~({"[brand]", config.type_col} \subseteq columns)
           \/ ~(PeculiarFilterColumns(config.peculiar_filters) \subseteq columns)
           \/ /\ ~IsEmpty(receiving_peculiar(d, now))
              /\ config.qty_col \notin columns
           \/ /\ ~IsEmpty(receiving_free(d, now))
              /\ \/ config.qty_col \notin columns
                 \/ /\ "gubun" \notin columns
                    /\ \/ "gubun" \notin DOMAIN config.final_columns_free
                       \/ config.final_columns_free["gubun"] \notin columns

NoBuckets == [raised |-> FALSE, peculiar |-> EmptyFrame, free |-> EmptyFrame]

\* lines 163-228
process_receiving_data(d, now) ==
    LET config == CONFIG.rules.receiving
    IN  IF IsEmpty(d) THEN NoBuckets
        ELSE IF IsEmpty(filter_by_previous_month(d, config.date_col, now)) THEN NoBuckets
        ELSE IF receiving_raises(d, now) THEN [raised |-> TRUE]
        ELSE [raised |-> FALSE,
              peculiar |-> receiving_finalize(receiving_peculiar(d, now),
                                              config.final_columns_peculiar, FALSE),
              free |-> receiving_finalize(receiving_free(d, now),
                                          config.final_columns_free, TRUE)]

(***************************************************************************)
(* The script: the run button's handler and the download block             *)
(***************************************************************************)
\* no download button on the page
NoDownload == [offered |-> FALSE]

\* history: no run has started
NoRun == [outcome |-> "none"]

\* lines 243-244
NoSession == [processing_done |-> FALSE]

\* an uploaded file: pd.read_excel gives its table, or raises when the file
\* cannot be read
File(readable, table) == [readable |-> readable, table |-> table]

\* lines 260-270: the domain whose marker column the table has
domain_of(table) ==
    IF HasColumn(table, CONFIG.file_identifiers.shipping) THEN "shipping"
    ELSE IF HasColumn(table, CONFIG.file_identifiers.return) THEN "return"
    ELSE IF HasColumn(table, CONFIG.file_identifiers.receiving) THEN "receiving"
    ELSE "unknown"

\* pd.concat(parts, ignore_index=True), pd.DataFrame() when there is no part
RECURSIVE ConcatAll(_)
ConcatAll(parts) ==
    IF parts = <<>> THEN EmptyFrame
    ELSE Concat(Head(parts), ConcatAll(Tail(parts)))

\* lines 249-274: the concatenated table of a domain
domain_table(files, domain) ==
    LET RECURSIVE Parts(_)
        Parts(i) == IF i > Len(files) THEN <<>>
                    ELSE (IF domain_of(files[i].table) = domain
                          THEN <<files[i].table>> ELSE <<>>) \o Parts(i + 1)
    IN  ConcatAll(Parts(1))

\* line 259 raises
read_raises(files) == \E i \in 1..Len(files) : ~files[i].readable

\* lines 277-279: the classifiers' results
classified(files, now) ==
    [shipping |-> process_shipping_data(domain_table(files, "shipping"), now),
     return |-> process_return_data(domain_table(files, "return"), now),
     receiving |-> process_receiving_data(domain_table(files, "receiving"), now)]

\* lines 277-279 raise
classify_raises(c) == c.shipping.raised \/ c.return.raised \/ c.receiving.raised

\* Timestamp.strftime('%Y-%m-%d'), NaN for NaT
strftime(t) ==
    IF t = NaT THEN NaN
    ELSE DateText(<<CHOOSE y \in DOMAIN YearText : YearText[y] = t.year, "-",
                    CHOOSE mo \in DOMAIN MonthText : MonthText[mo] = t.month>>)

\* lines 288-292
format_date_columns(d) ==
    IF HasColumn(d, "ilja")
    THEN SetColumn(d, "ilja",
            [i \in 1..Len(d.rows) |-> strftime(to_datetime(d.rows[i].cells["ilja"]))])
    ELSE d

\* mutant: the sheet is written whether or not the table is empty
write_sheet_always(book, table, sheet_name) ==
    Append(book, [sheet_name |-> sheet_name, table |-> format_date_columns(table)])

\* lines 295-299: if not table.empty: format_date_columns(table).to_excel(...)
write_sheet(book, table, sheet_name) ==
    IF ~IsEmpty(table)
    THEN Append(book, [sheet_name |-> sheet_name, table |-> format_date_columns(table)])
    ELSE book

\* line 281
summary_table(c) == Concat(c.shipping.main, c.return.table)

\* lines 301-306: the validation sheet
validation_sheet(c) ==
    LET main == Len(c.shipping.main.rows)
        type == Len(c.shipping.type_abnormal.rows)
        store == Len(c.shipping.store_abnormal.rows)
    IN  [sheet_name |-> "geomjeung",
         table |-> [columns |-> <<"hangmok", "geonsu">>,
                    rows |-> <<main, type, store, main + type + store>>]]

\* lines 283-308: the workbook written from the classifiers' results
workbook(c) ==
    Append(
        write_sheet(
            write_sheet(
                write_sheet(
                    write_sheet(
                        write_sheet(<<>>, summary_table(c), "jeongsan-yoyak"),
                        c.shipping.store_abnormal, "maechulcheo isang"),
                    c.shipping.type_abnormal, "chulgotype isang"),
                c.receiving.peculiar, "ipgo teugisahang"),
            c.receiving.free, "musang jeongsang ipgo"),
        validation_sheet(c))

\* history: the row counts of the five tables the sheets are written from
source_rows(c) ==
    [summary |-> Len(summary_table(c).rows),
     store_abnormal |-> Len(c.shipping.store_abnormal.rows),
     type_abnormal |-> Len(c.shipping.type_abnormal.rows),
     peculiar |-> Len(c.receiving.peculiar.rows),
     free |-> Len(c.receiving.free.rows)]

\* mutant: a failed run leaves the session state as the earlier run left it
after_failed_run_untouched(ss) == ss

\* lines 247 and 320: processing_done = False
after_failed_run(ss) == [ss EXCEPT !.processing_done = FALSE]

\* lines 308-309
after_successful_run(ss, book) == [processing_done |-> TRUE, excel_output |-> book]

\* lines 322-332: the download button, rendered when processing_done
download_block(ss) ==
    IF ss.processing_done THEN [offered |-> TRUE, data |-> ss.excel_output]
    ELSE NoDownload

\* lines 246-332: the button is clicked; writer_raises says whether the
\* ExcelWriter block raises
ClickRun ==
    /\ pc = "page"
    /\ uploaded_files # <<>>
    /\ \E writer_raises \in BOOLEAN :
          LET c == classified(uploaded_files, today)
              failed == \/ read_raises(uploaded_files)
                        \/ classify_raises(c)
                        \/ writer_raises
          IN  /\ session_state' = IF failed THEN after_failed_run(session_state)
                                  ELSE after_successful_run(session_state, workbook(c))
              /\ last_run' = IF failed THEN [outcome |-> "failed"]
                             ELSE [outcome |-> "ok", produced |-> workbook(c),
                                   rows |-> source_rows(c)]
    /\ download' = download_block(session_state')
    /\ UNCHANGED <<type_conditions, today, df, df_before, result, pc, uploaded_files>>

\* the script reruns without a click of the run button (the download button
\* was clicked, say)
Rerun ==
    /\ pc = "page"
    /\ download' = download_block(session_state)
    /\ UNCHANGED <<type_conditions, today, df, df_before, result, pc,
                   uploaded_files, session_state, last_run>>

(***************************************************************************)
(* The previous-month filter called on a table of the caller               *)
(***************************************************************************)
\* a table with the given columns whose every cell of row i is cells[i]
Frame(columns, cells) ==
    [columns |-> columns,
     rows |-> [i \in 1..Len(cells) |->
                 [index |-> i - 1, cells |-> [c \in Range(columns) |-> cells[i]]]]]

DateCells ==
    { Timestamp(2023, 12), Timestamp(2024, 2), Timestamp(2023, 2), Timestamp(2024, 12),
      DateText(<<"2023", "-", "12">>), DateText(<<"2024", "-", "02">>),
      DateText(<<"h", "a", "p">>), NaN }

SeqsUpTo(S, n) == UNION {[1..k -> S] : k \in 0..n}

FilterInputs ==
    {Frame(cols, cells) : cols \in { <<"[chulgoil]", "[memo]">>, <<"[memo]">>, <<>> },
                          cells \in SeqsUpTo(DateCells, MaxRows)}

InitFilter ==
    /\ type_conditions = UsualTypeConditions
    /\ today \in Todays
    /\ df \in FilterInputs
    /\ df_before = df
    /\ result = EmptyFrame
    /\ pc = "call"
    /\ uploaded_files = <<>>
    /\ session_state = NoSession
    /\ download = NoDownload
    /\ last_run = NoRun

CallFilter ==
    /\ pc = "call"
    /\ result' = filter_by_previous_month(df, CONFIG.rules.shipping.date_col, today)
    /\ df' = filter_caller_after(df, CONFIG.rules.shipping.date_col)
    /\ pc' = "returned"
    /\ UNCHANGED <<type_conditions, today, df_before, uploaded_files, session_state,
                   download, last_run>>

NextFilter == CallFilter

SpecFilter == InitFilter /\ [][NextFilter]_vars

(***************************************************************************)
(* Claims about filter_by_previous_month (SpecFilter)                      *)
(***************************************************************************)
\* the calendar month before now, by counting months
PrecedingMonth(now) ==
    LET n == now.year * 12 + (now.month - 1) - 1
    IN  [year |-> n \div 12, month |-> (n % 12) + 1]

WellFormedDateTexts ==
    {<<y, "-", m>> : y \in {"2023", "2024"},
                     m \in {"01", "02", "03", "04", "05", "06",
                            "07", "08", "09", "10", "11", "12"}}

Unparseable(cell) ==
    \/ cell.kind = "nan"
    \/ cell.kind = "str" /\ cell.text \notin WellFormedDateTexts

FilterDateCol == CONFIG.rules.shipping.date_col

\* the row of table d whose index label is ix
RowAt(d, ix) == CHOOSE r \in Range(d.rows) : r.index = ix

\* C1: every row filter_by_previous_month returns is a row of the input whose
\* parsed date lies in the calendar month before the current month (December
\* of the previous year in January); no row with an unparseable date is
\* returned; a missing date column or an empty input gives an empty table.
C1_PreviousMonthOnly ==
    pc = "returned" =>
        /\ \A r \in Range(result.rows) :
              /\ r.index \in Indexes(df_before)
              /\ ~Unparseable(RowAt(df_before, r.index).cells[FilterDateCol])
              /\ r.cells[FilterDateCol].kind = "ts"
              /\ r.cells[FilterDateCol].year = PrecedingMonth(today).year
              /\ r.cells[FilterDateCol].month = PrecedingMonth(today).month
        /\ (~HasColumn(df_before, FilterDateCol) \/ Len(df_before.rows) = 0)
              => result = EmptyFrame

\* in January, a table with an unparseable date yields a December row
C1_Witness ==
    /\ pc = "returned"
    /\ today.month = 1
    /\ Len(result.rows) >= 1
    /\ \E r \in Range(df_before.rows) : Unparseable(r.cells[FilterDateCol])

\* C5: filter_by_previous_month leaves the caller's table as it was.
C5_CallerTableUnchanged == pc = "returned" => df = df_before

(***************************************************************************)
(* process_shipping_data called on a shipping table (SpecShipping)         *)
(***************************************************************************)
ShippingColumns == <<"[chulgoil]", "[brand]", "[maechulcheo]", "[taekbaesa]",
                     "[sangtae]", "[gubun]", "[changgo]">>

ShipRow(date, brand, mall, type, sangtae, gubun) ==
    [c \in Range(ShippingColumns) |->
        CASE c = "[chulgoil]"    -> date
          [] c = "[brand]"       -> brand
          [] c = "[maechulcheo]" -> mall
          [] c = "[taekbaesa]"   -> type
          [] c = "[sangtae]"     -> sangtae
          [] c = "[gubun]"       -> gubun
          [] c = "[changgo]"     -> "samil"]

\* rows of a shipping export, the current month being March 2024
ShipMain    == ShipRow(Timestamp(2024, 2), <<"A">>, <<"S", ":", " ", "M", "1">>,
                       "taekbae", "done", "normal")
ShipStore   == ShipRow(Timestamp(2024, 2), <<"A">>, <<"Z", "9">>,
                       "taekbae", "done", "normal")
ShipType    == ShipRow(Timestamp(2024, 2), <<"A">>, <<"S", "7">>,
                       "hwamul", "done", "normal")
ShipBrandX  == ShipRow(Timestamp(2024, 2), <<" ", "X", " ", ":", "k">>, <<"M", "1">>,
                       "taekbae", "done", "normal")
ShipCancel  == ShipRow(Timestamp(2024, 2), <<"A">>, <<"M", "1">>,
                       "taekbae", "cancel", "normal")
ShipOld     == ShipRow(Timestamp(2024, 3), <<"A">>, <<"M", "1">>,
                       "taekbae", "done", "normal")
ShipSummary == ShipRow(NaN, <<"h", "a", "p">>, NoText, "nan", "nan", "nan")

\* the rows SpecShipping draws its tables from
ShipRows == {ShipMain, ShipStore, ShipType, ShipBrandX, ShipCancel, ShipSummary}

\* a table of the given columns whose i-th row holds cells[i]
Table(columns, cells) ==
    [columns |-> columns,
     rows |-> [i \in 1..Len(cells) |-> [index |-> i - 1, cells |-> cells[i]]]]

InitShipping ==
    /\ type_conditions \in TypeConditions
    /\ today = [year |-> 2024, month |-> 3]
    /\ df \in {Table(ShippingColumns, cells) : cells \in SeqsUpTo(ShipRows, MaxShipRows)}
    /\ df_before = df
    /\ result = NoTables
    /\ pc = "call"
    /\ uploaded_files = <<>>
    /\ session_state = NoSession
    /\ download = NoDownload
    /\ last_run = NoRun

CallShipping ==
    /\ pc = "call"
    /\ result' = process_shipping_data(df, today)
    /\ pc' = IF result'.raised THEN "raised" ELSE "returned"
    /\ UNCHANGED <<type_conditions, today, df, df_before, uploaded_files,
                   session_state, download, last_run>>

NextShipping == CallShipping

SpecShipping == InitShipping /\ [][NextShipping]_vars

\* the rows left by lines 46-64
Survivors == shipping_survivors(df_before, today)

\* C2: the main, type-anomaly and mall-anomaly tables share no row, and hold
\* between them each row that survives the month filter, the brand exclusion
\* and the configured filters exactly once.
C2_ThreeWayPartition ==
    pc = "returned" /\ ~IsEmpty(filter_by_previous_month(df_before, "[chulgoil]", today)) =>
        /\ Indexes(result.main) \cap Indexes(result.type_abnormal) = {}
        /\ Indexes(result.main) \cap Indexes(result.store_abnormal) = {}
        /\ Indexes(result.type_abnormal) \cap Indexes(result.store_abnormal) = {}
        /\ Indexes(result.main) \cup Indexes(result.type_abnormal)
              \cup Indexes(result.store_abnormal) = Indexes(Survivors)
        /\ Len(result.main.rows) + Len(result.type_abnormal.rows)
              + Len(result.store_abnormal.rows) = Len(Survivors.rows)

\* all three tables hold a row and a row of the input did not survive
C2_Witness ==
    /\ pc = "returned"
    /\ Len(result.main.rows) >= 1
    /\ Len(result.type_abnormal.rows) >= 1
    /\ Len(result.store_abnormal.rows) >= 1
    /\ Len(df_before.rows) = MaxShipRows

\* C9: with the keyword list empty or missing the classifier still completes,
\* the keyword test matches no row, and the type-anomaly table holds exactly
\* the surviving rows whose shipment type is not a configured normal type.
C9_NoKeywordsNoMatch ==
    (/\ pc # "call"
     /\ ~IsEmpty(filter_by_previous_month(df_before, "[chulgoil]", today))
     /\ \/ "normal_mall_keywords" \notin DOMAIN type_conditions
        \/ type_conditions.normal_mall_keywords = <<>>)
    => /\ pc = "returned"
       /\ \A r \in Range(Survivors.rows) : ~cond_mall_keywords(r)
       /\ Indexes(result.type_abnormal) =
             {r.index : r \in {x \in Range(Survivors.rows) : ~cond_type_normal(x)}}

(***************************************************************************)
(* process_return_data called on a return table (SpecReturn)               *)
(***************************************************************************)
ReturnColumns == <<"[banpumil]", "[brand]", "[suryang]", "[sangtae]", "[gubun]",
                   "[jumunbeonho]", "[sangpumcode]", "[pummokmyeong]">>

\* a return export that has no product-name column
ReturnColumnsNoName == SubSeq(ReturnColumns, 1, Len(ReturnColumns) - 1)

ReturnRow(columns, date, brand, qty, status) ==
    [c \in Range(columns) |->
        CASE c = "[banpumil]" -> date
          [] c = "[brand]"    -> brand
          [] c = "[suryang]"  -> qty
          [] c = "[sangtae]"  -> status
          [] OTHER            -> "x"]

\* rows of a return export, the current month being March 2024
ReturnRows(columns) ==
    { ReturnRow(columns, Timestamp(2024, 2), <<"A">>, Number(3), "jeongsang"),
      ReturnRow(columns, Timestamp(2024, 2), <<"A", ":", "k">>, Number(0 - 2), "jeongsang"),
      ReturnRow(columns, DateText(<<"2024", "-", "02">>), <<"A">>, Number(5), "bulryang-banpum"),
      ReturnRow(columns, Timestamp(2024, 2), <<"A">>, Number(0 - 4), "pason-banpum"),
      ReturnRow(columns, Timestamp(2024, 2), <<"A">>, NonNumeric, "bulryang-banpum"),
      ReturnRow(columns, Timestamp(2024, 2), <<"X", ":", "k">>, Number(1), "jeongsang"),
      ReturnRow(columns, NaN, <<"h", "a", "p">>, Number(9), "nan") }

InitReturn ==
    /\ type_conditions = UsualTypeConditions
    /\ today = [year |-> 2024, month |-> 3]
    /\ \E columns \in {ReturnColumns, ReturnColumnsNoName} :
          df \in {Table(columns, cells) :
                    cells \in SeqsUpTo(ReturnRows(columns), MaxReturnRows)}
    /\ df_before = df
    /\ result = [raised |-> FALSE, table |-> EmptyFrame]
    /\ pc = "call"
    /\ uploaded_files = <<>>
    /\ session_state = NoSession
    /\ download = NoDownload
    /\ last_run = NoRun

CallReturn ==
    /\ pc = "call"
    /\ result' = process_return_data(df, today)
    /\ pc' = IF result'.raised THEN "raised" ELSE "returned"
    /\ UNCHANGED <<type_conditions, today, df, df_before, uploaded_files,
                   session_state, download, last_run>>

NextReturn == CallReturn

SpecReturn == InitReturn /\ [][NextReturn]_vars

\* the input rows that pass the month filter and the brand exclusion
ReturnSurvivors ==
    exclude_brands(filter_by_previous_month(df_before, "[banpumil]", today), "[brand]")

\* the positions of the output rows that come from the input row labelled ix
RowsFrom(ix) == {i \in 1..Len(result.table.rows) : result.table.rows[i].origin = ix}

\* the magnitude of an input quantity cell, a non-numeric cell counting as 0
Magnitude(cell) ==
    IF cell.kind = "num" THEN (IF cell.n < 0 THEN 0 - cell.n ELSE cell.n) ELSE 0

IsMappedStatus(r) == r.cells["[sangtae]"] \in {"bulryang-banpum", "pason-banpum"}

MappedCategory(r) == IF r.cells["[sangtae]"] = "bulryang-banpum" THEN "bulryang" ELSE "pason"

C10_ReturnFullColumns ==
    pc = "returned" /\ Len(result.table.rows) > 0 => result.table.columns = col_order

(***************************************************************************)
(* process_receiving_data called on a receiving table (SpecReceiving)      *)
(***************************************************************************)
ReceivingColumns == <<"[ipgoil]", "[brand]", "[ipgotype]", "[sangtae]", "[gubun]", "suryang">>

ReceivingRow(date, brand, type, status, category, qty) ==
    [c \in Range(ReceivingColumns) |->
        CASE c = "[ipgoil]"   -> date
          [] c = "[brand]"    -> brand
          [] c = "[ipgotype]" -> type
          [] c = "[sangtae]"  -> status
          [] c = "[gubun]"    -> category
          [] c = "suryang"    -> qty]

\* rows of a receiving export, the current month being March 2024
ReceivingRows ==
    { ReceivingRow(Timestamp(2024, 2), <<"A">>, "musang", "done",
                   <<"i", " ", ":", " ", "s">>, Number(3)),
      ReceivingRow(Timestamp(2024, 2), <<"A">>, "musang", "done",
                   <<"i", " ", ":", " ", "s", " ", ":", " ", "t">>, Number(0 - 2)),
      ReceivingRow(Timestamp(2024, 2), <<"A">>, "musang", "done",
                   <<"i", ":", "s">>, NonNumeric),
      ReceivingRow(Timestamp(2024, 2), <<"A">>, "musang", "cancel",
                   <<" ", ":", " ", ":", " ">>, Number(1)),
      ReceivingRow(Timestamp(2024, 2), <<"A">>, "banpum-ipgo", "done",
                   <<"b", " ", ":", " ", "s">>, Number(4)),
      ReceivingRow(DateText(<<"2024", "-", "02">>), <<"A">>, "gita-ipgo", "done",
                   <<"g">>, Number(0 - 1)),
      ReceivingRow(Timestamp(2024, 2), <<"A">>, "gita-ipgo", "done",
                   <<"g">>, NonNumeric),
      ReceivingRow(Timestamp(2024, 2), <<"A">>, "idong", "done",
                   <<"d">>, Number(2)),
      ReceivingRow(Timestamp(2024, 2), <<"A">>, "banpum-ipgo", "cancel",
                   <<"b">>, Number(2)),
      ReceivingRow(Timestamp(2024, 2), <<"X", " ", ":", "k">>, "musang", "done",
                   <<"i", " ", ":", " ", "s">>, Number(6)),
      ReceivingRow(NaN, <<"h", "a", "p">>, "nan", "nan", TextNaN, Number(9)) }

InitReceiving ==
    /\ type_conditions = UsualTypeConditions
    /\ today = [year |-> 2024, month |-> 3]
    /\ df \in {Table(ReceivingColumns, cells) :
                  cells \in SeqsUpTo(ReceivingRows, MaxReceivingRows)}
    /\ df_before = df
    /\ result = NoBuckets
    /\ pc = "call"
    /\ uploaded_files = <<>>
    /\ session_state = NoSession
    /\ download = NoDownload
    /\ last_run = NoRun

CallReceiving ==
    /\ pc = "call"
    /\ result' = process_receiving_data(df, today)
    /\ pc' = IF result'.raised THEN "raised" ELSE "returned"
    /\ UNCHANGED <<type_conditions, today, df, df_before, uploaded_files,
                   session_state, download, last_run>>

NextReceiving == CallReceiving

SpecReceiving == InitReceiving /\ [][NextReceiving]_vars

Separator == <<" ", ":", " ">>

HasSecondSegment(text) == \E p \in 1..Len(text) : OccursAt(Separator, text, p)

\* seg is what lies between the first separator of text and the next one (or
\* the end of text)
IsSecondSegment(seg, text) ==
    \E p \in 1..Len(text) :
        /\ OccursAt(Separator, text, p)
        /\ \A j \in 1..(p - 1) : ~OccursAt(Separator, text, j)
        /\ LET from == p + Len(Separator)
           IN  /\ from + Len(seg) - 1 <= Len(text)
               /\ \A k \in 1..Len(seg) : text[from + k - 1] = seg[k]
               /\ \A j \in from..(from + Len(seg) - 1) : ~OccursAt(Separator, text, j)
               /\ \/ from + Len(seg) - 1 = Len(text)
                  \/ OccursAt(Separator, text, from + Len(seg))

\* C4: a peculiar-bucket row has quantity -|original quantity| (<= 0, a
\* non-numeric original counting as 0) and new-category "banpum"; a
\* free-bucket row has the original quantity and, as new-category, the second
\* " : "-delimited segment of its original category text (null when the text
\* has no second segment).
C4_ReceivingBuckets ==
    pc = "returned" =>
        /\ \A r \in Range(result.peculiar.rows) :
              LET src == RowAt(df_before, r.index).cells
              IN  /\ r.cells["suryang"] = Number(0 - Magnitude(src["suryang"]))
                  /\ r.cells["suryang"].n <= 0
                  /\ r.cells["gubun(new)"] = "banpum"
        /\ \A r \in Range(result.free.rows) :
              LET src == RowAt(df_before, r.index).cells
              IN  /\ r.cells["suryang"] =
                        Number(IF src["suryang"].kind = "num" THEN src["suryang"].n ELSE 0)
                  /\ IF HasSecondSegment(src["[gubun]"])
                     THEN IsSecondSegment(r.cells["gubun(new)"], src["[gubun]"])
                     ELSE r.cells["gubun(new)"] = TextNaN

\* a peculiar row with a negative original quantity and a free row whose
\* category has three segments
C4_Witness ==
    /\ pc = "returned"
    /\ \E r \in Range(result.peculiar.rows) :
          RowAt(df_before, r.index).cells["suryang"] = Number(0 - 1)
    /\ \E r \in Range(result.free.rows) :
          /\ RowAt(df_before, r.index).cells["suryang"] = Number(0 - 2)
          /\ r.cells["gubun(new)"] = <<"s">>

(***************************************************************************)
(* One shipping file of seven rows, in every order (SpecEndToEnd)          *)
(***************************************************************************)
\* 3 normal-type mall-listed rows, 1 normal-type row of a mall not listed,
\* 1 row of another type, 2 rows outside February 2024
SevenRows == <<ShipMain, ShipMain, ShipMain, ShipStore, ShipType,
               ShipOld, ShipOld>>

Orderings == {[i \in 1..Len(SevenRows) |-> SevenRows[p[i]]] :
                 p \in Permutations(1..Len(SevenRows))}

InitScript ==
    /\ today = [year |-> 2024, month |-> 3]
    /\ df = EmptyFrame
    /\ df_before = EmptyFrame
    /\ result = EmptyFrame
    /\ pc = "page"
    /\ session_state = NoSession
    /\ download = NoDownload
    /\ last_run = NoRun

InitEndToEnd ==
    /\ InitScript
    /\ type_conditions = UsualTypeConditions
    /\ uploaded_files \in {<<File(TRUE, Table(ShippingColumns, cells))>> : cells \in Orderings}

NextEndToEnd == ClickRun \/ Rerun

SpecEndToEnd == InitEndToEnd /\ [][NextEndToEnd]_vars

\* the sheet of the offered workbook named sheet_name
Sheet(book, sheet_name) ==
    CHOOSE sh \in Range(book) : sh.sheet_name = sheet_name

SheetNames(book) == {book[i].sheet_name : i \in 1..Len(book)}

SheetRows(book, sheet_name) ==
    IF sheet_name \in SheetNames(book) THEN Len(Sheet(book, sheet_name).table.rows) ELSE 0

TheFile == uploaded_files[1].table

\* the file ends with one of the five rows of the month
LastRowInMonth == TheFile.rows[Len(TheFile.rows)].cells # ShipOld

ExpectedCounts(book) ==
    /\ SheetRows(book, "jeongsan-yoyak") = 3
    /\ SheetRows(book, "maechulcheo isang") = 1
    /\ SheetRows(book, "chulgotype isang") = 1
    /\ Sheet(book, "geomjeung").table.rows = <<3, 1, 1, 5>>

\* C7 as stated: whatever the order of the seven rows, a successful run gives
\* a summary sheet of 3 rows, a mall-anomaly sheet of 1 row, a type-anomaly
\* sheet of 1 row and the tally [3, 1, 1, 5].
C7_EveryOrdering ==
    last_run.outcome = "ok" => ExpectedCounts(last_run.produced)

\* C7 amended: the counts are those when the file's last row is one of the two
\* rows outside the month; when the last row is a row of the month it is
\* dropped as the trailing summary row, and the tally sums to 4.
C7_LastRowOutsideMonth ==
    last_run.outcome = "ok" =>
        IF LastRowInMonth
        THEN Sheet(last_run.produced, "geomjeung").table.rows[4] = 4
        ELSE ExpectedCounts(last_run.produced)

C7_Witness ==
    /\ last_run.outcome = "ok"
    /\ ~LastRowInMonth
    /\ download.offered
    /\ Sheet(download.data, "geomjeung").table.rows = <<3, 1, 1, 5>>

(***************************************************************************)
(* Runs over every combination of empty and non-empty tables (SpecAssembly)*)
(***************************************************************************)
\* the rows of rows whose position is in keep, then a trailing summary row
Export(columns, rows, keep, summary) ==
    Table(columns, SelectSeq(rows, LAMBDA r : r \in keep) \o <<summary>>)

ReturnPlain == ReturnRow(ReturnColumns, Timestamp(2024, 2), <<"A">>, Number(3), "jeongsang")
ReturnSummary == ReturnRow(ReturnColumns, NaN, <<"h", "a", "p">>, Number(9), "nan")
ReceivingFree == ReceivingRow(Timestamp(2024, 2), <<"A">>, "musang", "done",
                              <<"i", " ", ":", " ", "s">>, Number(3))
ReceivingPeculiar == ReceivingRow(Timestamp(2024, 2), <<"A">>, "banpum-ipgo", "done",
                                  <<"b", " ", ":", " ", "s">>, Number(4))
ReceivingSummary == ReceivingRow(NaN, <<"h", "a", "p">>, "nan", "nan", TextNaN, Number(9))

InitAssembly ==
    /\ InitScript
    /\ type_conditions = UsualTypeConditions
    /\ \E ship \in SUBSET {ShipMain, ShipStore, ShipType},
          ret \in SUBSET {ReturnPlain},
          recv \in SUBSET {ReceivingPeculiar, ReceivingFree} :
          uploaded_files =
            << File(TRUE, Export(ShippingColumns, <<ShipMain, ShipStore, ShipType>>,
                                 ship, ShipSummary)),
               File(TRUE, Export(ReturnColumns, <<ReturnPlain>>, ret, ReturnSummary)),
               File(TRUE, Export(ReceivingColumns, <<ReceivingPeculiar, ReceivingFree>>,
                                 recv, ReceivingSummary)) >>

NextAssembly == ClickRun \/ Rerun

SpecAssembly == InitAssembly /\ [][NextAssembly]_vars

DataSheets ==
    [summary |-> "jeongsan-yoyak", store_abnormal |-> "maechulcheo isang",
     type_abnormal |-> "chulgotype isang", peculiar |-> "ipgo teugisahang",
     free |-> "musang jeongsang ipgo"]

\* C8: in the workbook of a successful run each of the five data sheets is
\* present exactly when its source table has a row, a written sheet holds the
\* rows of its source, and the workbook holds no other sheet but the tally.
C8_SheetIffRows ==
    last_run.outcome = "ok" =>
        /\ \A k \in DOMAIN DataSheets :
              /\ DataSheets[k] \in SheetNames(last_run.produced) <=> last_run.rows[k] >= 1
              /\ SheetRows(last_run.produced, DataSheets[k]) = last_run.rows[k]
        /\ SheetNames(last_run.produced) \subseteq
              {DataSheets[k] : k \in DOMAIN DataSheets} \cup {"geomjeung"}
        /\ Cardinality(SheetNames(last_run.produced)) = Len(last_run.produced)

\* the run in which all five tables are empty: the tally is the only sheet
C8_Witness ==
    /\ last_run.outcome = "ok"
    /\ \A k \in DOMAIN DataSheets : last_run.rows[k] = 0
    /\ SheetNames(last_run.produced) = {"geomjeung"}

(***************************************************************************)
(* Runs of one session, some of which raise (SpecSession)                  *)
(***************************************************************************)
\* a receiving export without the brand column: line 170 raises KeyError
ReceivingNoBrand ==
    LET columns == <<"[ipgoil]", "[ipgotype]", "suryang">>
    IN  Table(columns, << [c \in Range(columns) |->
                              CASE c = "[ipgoil]"   -> Timestamp(2024, 2)
                                [] c = "[ipgotype]" -> "musang"
                                [] c = "suryang"    -> Number(1)] >>)

SessionFiles ==
    { File(TRUE, Table(ShippingColumns, <<ShipMain, ShipStore, ShipSummary>>)),
      File(TRUE, Table(ReturnColumns, <<ReturnPlain, ReturnSummary>>)),
      File(TRUE, Table(<<"[memo]">>, << [c \in {"[memo]"} |-> "x"] >>)),
      File(TRUE, ReceivingNoBrand),
      File(FALSE, EmptyFrame) }

InitSession ==
    /\ InitScript
    /\ type_conditions = UsualTypeConditions
    /\ uploaded_files = <<>>

\* the user adds a file to the uploader or clears it; the script reruns
ChangeFiles ==
    /\ pc = "page"
    /\ \/ /\ Len(uploaded_files) < MaxFiles
          /\ \E f \in SessionFiles : uploaded_files' = Append(uploaded_files, f)
       \/ /\ uploaded_files # <<>>
          /\ uploaded_files' = <<>>
    /\ download' = download_block(session_state)
    /\ UNCHANGED <<type_conditions, today, df, df_before, result, pc,
                   session_state, last_run>>

NextSession == ClickRun \/ Rerun \/ ChangeFiles

SpecSession == InitSession /\ [][NextSession]_vars

\* C6: a workbook is offered only when the most recently started run
\* completed without error, and it is the workbook that run produced; after a
\* run that raised nothing is offered.
C6_OfferedOnlyFromLastRun ==
    /\ download.offered =>
          /\ last_run.outcome = "ok"
          /\ download.data = last_run.produced
    /\ last_run.outcome = "failed" => ~download.offered

\* a run failed after an earlier one had left its workbook in the session
C6_Witness ==
    /\ last_run.outcome = "failed"
    /\ "excel_output" \in DOMAIN session_state
    /\ ~download.offered

====
